---- MODULE Spec2Model ----
(***************************************************************************)
(* Model of the elementary-news-bot posting core:                          *)
(*   models/article.py               Article                               *)
(*   services/note_poster_service.py NotePosterService                     *)
(* Strings are sequences of one-character strings.  Positions follow       *)
(* Python: 0-based, s[a:b] is SubSeq(s, a+1, b).                           *)
(***************************************************************************)
EXTENDS Integers, Sequences, FiniteSets, TLC

VARIABLES
    article,        \* the Article object: content, improved_content, status, published_at
    pc,             \* position of the running call
    markdown_input, \* parse_markdown: the argument markdown_content as passed in
    cleaned,        \* parse_markdown: markdown_content after remove_markdown_block
    content,        \* parse_markdown: local content (the body)
    title,          \* parse_markdown: local title
    sections,       \* parse_markdown: local sections
    session,        \* playwright driver / browser / context / page handles
    ui,             \* the calls issued against the page, in order
    clipboard,      \* pyperclip clipboard
    idx,            \* post_article: index of the section being processed
    step,           \* sub-step inside the current primitive
    pending,        \* how the try block was left: what post_article is about to return
    failed,         \* the call that raised, "" when none
    visible,        \* what page.is_visible reported for the publish control
    entry,          \* status and published_at of the article when post_article was entered
    result,         \* what the caller of post_article observed
    calls,          \* number of post_article calls made on this article
    config,         \* main.py: which required keys config.json / the environment provide
    mode,           \* main.py: "now" (--now) or "scheduler"
    sched,          \* main.py: state of the main program and its scheduler loop
    ppc,            \* process_and_post_news: position, "none" when it is not running
    run_status,     \* process_and_post_news: status of the agent run being polled
    polls,          \* process_and_post_news: retrievals made in the current wait loop
    simplified_content,  \* process_and_post_news: local simplified_content
    validation_feedback, \* process_and_post_news: the critique asks for a revision
    archives,       \* the archive file of each day: None or its record
    run_results,    \* what each process_and_post_news call gave its caller, in order
    fetch_call,     \* fetch_trending_news: its arguments and what its collaborators answer
    fetch_result    \* fetch_trending_news: None before the call, then what the caller got

fetchVars == <<fetch_call, fetch_result>>

mainVars == <<config, mode, sched, ppc, run_status, polls, simplified_content,
              validation_feedback, archives, run_results, fetchVars>>

vars == <<article, pc, markdown_input, cleaned, content, title, sections, session,
          ui, clipboard, idx, step, pending, failed, visible, entry, result, calls,
          mainVars>>

parseVars == <<markdown_input, cleaned, content, title, sections>>

(***************************************************************************)
(* Bounds                                                                  *)
(***************************************************************************)
MaxLines == 4
MaxCalls == 2
MaxTime  == 2
MaxPolls == 2
MaxRuns  == 2
MaxArticles == 3

\* the largest pageSize asked of the news service (line 106)
MaxPageSize == 20

\* Optional values: None is the empty tuple, a present value x is <<x>>
None == <<>>
Some(x) == <<x>>

\* timestamps that datetime.now() can return
Times == 1..MaxTime

(***************************************************************************)
(* String helpers (Python str / re semantics)                              *)
(***************************************************************************)
Min(S) == CHOOSE x \in S : \A y \in S : x <= y
Max(S) == CHOOSE x \in S : \A y \in S : x >= y

\* Python slice s[a:b] for 0 <= a, b <= len(s)
Slice(s, a, b) == SubSeq(s, a + 1, b)

\* str.strip(): whitespace characters of the modelled alphabet
Whitespace == {" ", "\n", "\t"}

strip(s) ==
    LET keep == {i \in 1..Len(s) : s[i] \notin Whitespace}
    IN  IF keep = {} THEN <<>> ELSE SubSeq(s, Min(keep), Max(keep))

\* s.startswith(p, pos)
StartsWithAt(s, p, pos) ==
    /\ pos + Len(p) <= Len(s)
    /\ \A i \in 1..Len(p) : s[pos + i] = p[i]

\* s.find(p, pos): first position >= pos where p occurs, -1 when none
Find(s, p, pos) ==
    LET hits == {q \in pos..(Len(s) - Len(p)) : StartsWithAt(s, p, q)}
    IN  IF hits = {} THEN -1 ELSE Min(hits)

\* s.replace(old, "", 1)
ReplaceFirstWithEmpty(s, old) ==
    LET q == Find(s, old, 0)
    IN  IF q = -1 THEN s
        ELSE Slice(s, 0, q) \o Slice(s, q + Len(old), Len(s))

\* re.MULTILINE "^": start of the string or right after a newline
AtLineStart(s, pos) == pos = 0 \/ s[pos] = "\n"

\* end of a greedy ".+" / ".*" started at pos: the next newline or len(s)
DotRunEnd(s, pos) ==
    LET nl == {q \in pos..(Len(s) - 1) : s[q + 1] = "\n"}
    IN  IF nl = {} THEN Len(s) ELSE Min(nl)

(***************************************************************************)
(* remove_markdown_block: re.sub of the pattern                            *)
(*   three backticks, "markdown", newline, (.*?), three backticks          *)
(* by group 1, with flags=re.DOTALL                                        *)
(***************************************************************************)
\* the backtick character, written as a symbol of its own
BT == "backtick"

OpenFence  == <<BT, BT, BT, "m", "a", "r", "k", "d", "o", "w", "n", "\n">>
CloseFence == <<BT, BT, BT>>

\* leftmost match of the pattern at or after pos: <<start, end>>, or <<-1, -1>>.
\* (.*?) is lazy and DOTALL: it stops at the first closing fence after the opening.
FenceMatch(text, pos) ==
    LET starts == {q \in pos..Len(text) :
                      /\ StartsWithAt(text, OpenFence, q)
                      /\ Find(text, CloseFence, q + Len(OpenFence)) # -1}
    IN  IF starts = {} THEN <<-1, -1>>
        ELSE LET q == Min(starts)
                 c == Find(text, CloseFence, q + Len(OpenFence))
             IN  <<q, c + Len(CloseFence)>>

\* re.sub with count=0: every non-overlapping match, left to right, is
\* replaced by its group 1; the scan resumes after the match.
RECURSIVE FenceSub(_, _)
FenceSub(text, pos) ==
    LET m == FenceMatch(text, pos)
    IN  IF m[1] = -1 THEN Slice(text, pos, Len(text))
        ELSE Slice(text, pos, m[1])
             \o Slice(text, m[1] + Len(OpenFence), m[2] - Len(CloseFence))
             \o FenceSub(text, m[2])

\* re.sub(..., count=1): only the first match is replaced
remove_markdown_block_count1(text) ==
    LET m == FenceMatch(text, 0)
    IN  IF m[1] = -1 THEN text
        ELSE Slice(text, 0, m[1])
             \o Slice(text, m[1] + Len(OpenFence), m[2] - Len(CloseFence))
             \o Slice(text, m[2], Len(text))

remove_markdown_block(text) == FenceSub(text, 0)

(***************************************************************************)
(* parse_markdown                                                          *)
(***************************************************************************)
\* the fixed placeholder title of line 54 ("untitled article"), kept as one symbol
UntitledTitle == <<"<untitled article>">>

\* the search without re.MULTILINE anchoring: "# " followed by text anywhere
title_match_unanchored(s) ==
    LET starts == {q \in 0..(Len(s) - 3) :
                      /\ s[q + 1] = "#"
                      /\ s[q + 2] = " "
                      /\ s[q + 3] # "\n"}
    IN  IF starts = {} THEN <<-1, -1>>
        ELSE <<Min(starts), DotRunEnd(s, Min(starts) + 2)>>

\* re.search(r"^# (.+)", s, re.MULTILINE): <<start, end>> or <<-1, -1>>
title_match(s) ==
    LET starts == {q \in 0..(Len(s) - 3) :
                      /\ AtLineStart(s, q)
                      /\ s[q + 1] = "#"
                      /\ s[q + 2] = " "
                      /\ s[q + 3] # "\n"}
    IN  IF starts = {} THEN <<-1, -1>>
        ELSE <<Min(starts), DotRunEnd(s, Min(starts) + 2)>>

\* the pattern with #{1,4} in place of #{1,3}
HeadingLevelAt_upto4(s, q) ==
    LET ks == {k \in 1..4 :
                  /\ q + k + 2 <= Len(s)
                  /\ \A i \in 1..k : s[q + i] = "#"
                  /\ s[q + k + 1] = " "
                  /\ s[q + k + 2] # "\n"}
    IN  IF AtLineStart(s, q) /\ ks # {} THEN Max(ks) ELSE 0

\* heading_pattern = re.compile(r"^(#{1,3}) (.+)", re.MULTILINE), matched at q:
\* the number of # in group 1, or 0 when the pattern does not match at q
HeadingLevelAt(s, q) ==
    LET ks == {k \in 1..3 :
                  /\ q + k + 2 <= Len(s)
                  /\ \A i \in 1..k : s[q + i] = "#"
                  /\ s[q + k + 1] = " "
                  /\ s[q + k + 2] # "\n"}
    IN  IF AtLineStart(s, q) /\ ks # {} THEN Max(ks) ELSE 0

\* next match of heading_pattern at or after pos: <<start, end, level>>
heading_pattern(s, pos) ==
    LET starts == {q \in pos..(Len(s) - 3) : HeadingLevelAt(s, q) > 0}
    IN  IF starts = {} THEN <<-1, -1, 0>>
        ELSE LET q == Min(starts)
                 k == HeadingLevelAt(s, q)
             IN  <<q, DotRunEnd(s, q + k + 1), k>>

Hashes(k) == [i \in 1..k |-> "#"]

HeadingType(k) == IF k = 1 THEN "heading1" ELSE IF k = 2 THEN "heading2" ELSE "heading3"

Paragraph(text) == [type |-> "paragraph", content |-> text]

\* the loop and the trailing block without the "if paragraph_content" tests
RECURSIVE ExtractSections_keeps_empty(_, _, _, _)
ExtractSections_keeps_empty(body, pos, last_pos, acc) ==
    LET m == heading_pattern(body, pos)
    IN  IF m[1] = -1
        THEN IF last_pos < Len(body)
             THEN Append(acc, Paragraph(strip(Slice(body, last_pos, Len(body)))))
             ELSE acc
        ELSE LET heading_level == m[3]
                 heading_text  == Hashes(heading_level) \o <<" ">>
                                  \o strip(Slice(body, m[1] + heading_level + 1, m[2]))
             IN  ExtractSections_keeps_empty(body, m[2], m[2],
                     Append(Append(acc, Paragraph(strip(Slice(body, last_pos, m[1])))),
                            [type |-> HeadingType(heading_level),
                             content |-> heading_text]))

\* the loop with "last_pos = match.start()" in place of "last_pos = match.end()"
RECURSIVE ExtractSections_last_pos_start(_, _, _, _)
ExtractSections_last_pos_start(body, pos, last_pos, acc) ==
    LET m == heading_pattern(body, pos)
    IN  IF m[1] = -1
        THEN LET paragraph_content == strip(Slice(body, last_pos, Len(body)))
             IN  IF last_pos < Len(body) /\ paragraph_content # <<>>
                 THEN Append(acc, Paragraph(paragraph_content))
                 ELSE acc
        ELSE LET paragraph_content == strip(Slice(body, last_pos, m[1]))
                 heading_level == m[3]
                 heading_text  == Hashes(heading_level) \o <<" ">>
                                  \o strip(Slice(body, m[1] + heading_level + 1, m[2]))
                 withPara == IF paragraph_content # <<>>
                             THEN Append(acc, Paragraph(paragraph_content))
                             ELSE acc
             IN  ExtractSections_last_pos_start(body, m[2], m[1],
                     Append(withPara, [type |-> HeadingType(heading_level),
                                       content |-> heading_text]))

\* the body of "for match in heading_pattern.finditer(content)" and the
\* trailing "if last_pos < len(content)" block
RECURSIVE ExtractSections(_, _, _, _)
ExtractSections(body, pos, last_pos, acc) ==
    LET m == heading_pattern(body, pos)
    IN  IF m[1] = -1
        THEN LET paragraph_content == strip(Slice(body, last_pos, Len(body)))
             IN  IF last_pos < Len(body) /\ paragraph_content # <<>>
                 THEN Append(acc, Paragraph(paragraph_content))
                 ELSE acc
        ELSE LET paragraph_content == strip(Slice(body, last_pos, m[1]))
                 heading_level == m[3]
                 heading_text  == Hashes(heading_level) \o <<" ">>
                                  \o strip(Slice(body, m[1] + heading_level + 1, m[2]))
                 withPara == IF paragraph_content # <<>>
                             THEN Append(acc, Paragraph(paragraph_content))
                             ELSE acc
             IN  ExtractSections(body, m[2], m[2],
                     Append(withPara, [type |-> HeadingType(heading_level),
                                       content |-> heading_text]))

\* title and body: lines 47-55
TitleAndBody(md) ==
    LET m == title_match(md)
    IN  IF m[1] # -1
        THEN [title   |-> strip(Slice(md, m[1] + 2, m[2])),
              content |-> strip(ReplaceFirstWithEmpty(md, Slice(md, m[1], m[2])))]
        ELSE [title |-> UntitledTitle, content |-> md]

parse_markdown(markdown_content) ==
    LET md == remove_markdown_block(markdown_content)
        tb == TitleAndBody(md)
    IN  [cleaned  |-> md,
         title    |-> tb.title,
         content  |-> tb.content,
         sections |-> ExtractSections(tb.content, 0, 0, <<>>)]

(***************************************************************************)
(* Inputs of the parser: texts of up to MaxLines lines drawn from LineSet  *)
(***************************************************************************)
LineSet ==
    { <<>>,                                        \* an empty line
      <<" ">>,                                     \* a whitespace-only line
      <<"a">>,                                     \* plain text
      <<"#", " ", "a", " ">>,                      \* level-1 heading, trailing blank
      <<"#", "#", " ", "a", " ">>,                 \* level-2 heading, trailing blank
      <<"#", "#", "#", " ", "a">>,                 \* level-3 heading
      <<"#", "#", "#", "#", " ", "a">>,            \* four hashes
      <<BT, BT, BT, "m", "a", "r", "k", "d", "o", "w", "n">>,   \* opening fence line
      <<"b", BT, BT, BT>> }                        \* text and a closing fence

RECURSIVE JoinLines(_)
JoinLines(ls) ==
    IF Len(ls) = 0 THEN <<>>
    ELSE IF Len(ls) = 1 THEN ls[1]
    ELSE ls[1] \o <<"\n">> \o JoinLines(Tail(ls))

Texts == {JoinLines(ls) : ls \in UNION {[1..n -> LineSet] : n \in 1..MaxLines}}

NoArticle == [content |-> <<>>, improved_content |-> None,
              status |-> "", published_at |-> None]

NoSession == [playwright |-> FALSE, browser |-> "none",
              context |-> "none", page |-> "none"]

NoEntry == [status |-> "", published_at |-> None]

\* the keys that load_config requires (main.py line 48)
required_keys == {"openai_api_key", "news_api_key", "note_email", "note_password"}

\* every required key is provided
FullConfig == [k \in required_keys |-> TRUE]

\* the day part of datetime.now(), which names the archive file (line 450):
\* two runs fall on the same day or on different days
Days == {"day1", "day2"}

\* the archives directory before any run
NoArchives == [day \in Days |-> None]

\* fetch_trending_news has not been called
NoFetchCall == [num_articles |-> 0, age_appropriate |-> FALSE,
                response |-> None, answers |-> <<>>]

FetchNotCalled == fetch_call = NoFetchCall /\ fetch_result = None

\* main.py has not been started
MainNotStarted ==
    /\ config = FullConfig /\ mode = "now" /\ sched = "start" /\ ppc = "none"
    /\ run_status = "" /\ polls = 0 /\ simplified_content = <<>>
    /\ validation_feedback = FALSE /\ archives = NoArchives /\ run_results = <<>>
    /\ FetchNotCalled

\* a caller hands parse_markdown a text
InitParse ==
    /\ markdown_input \in Texts
    /\ pc = "parse_call"
    /\ cleaned = <<>> /\ content = <<>> /\ title = <<>> /\ sections = <<>>
    /\ article = NoArticle /\ session = NoSession /\ ui = <<>> /\ clipboard = <<>>
    /\ idx = 0 /\ step = 0 /\ pending = "" /\ failed = <<>> /\ visible = ""
    /\ entry = NoEntry /\ result = "" /\ calls = 0
    /\ MainNotStarted

\* parse_markdown(markdown_content) runs to its return
ParseMarkdown ==
    /\ pc = "parse_call"
    /\ LET r == parse_markdown(markdown_input)
       IN  /\ cleaned'  = r.cleaned
           /\ content'  = r.content
           /\ title'    = r.title
           /\ sections' = r.sections
    /\ pc' = "parse_return"
    /\ UNCHANGED <<markdown_input, article, session, ui, clipboard, idx, step,
                   pending, failed, visible, entry, result, calls>>
    /\ UNCHANGED mainVars

NextParse == ParseMarkdown

SpecParse == InitParse /\ [][NextParse]_vars

(***************************************************************************)
(* Article (models/article.py)                                             *)
(***************************************************************************)
\* "# a\nb\n## a": a title, a paragraph and a level-2 heading
ContentA == <<"#", " ", "a", "\n", "b", "\n", "#", "#", " ", "a">>
\* "b": no title, one paragraph
ContentB == <<"b">>
\* "# b\na\n\nb": a title and one paragraph of three lines
ContentC == <<"#", " ", "b", "\n", "a", "\n", "\n", "b">>

\* "# b\n# a\n### a\nb": a title, then a level-1 heading, a level-3 heading, a paragraph
ContentD == <<"#", " ", "b", "\n", "#", " ", "a", "\n",
              "#", "#", "#", " ", "a", "\n", "b">>

ArticleContents == {ContentA, ContentB, ContentD}
ImprovedContents == {None, Some(<<>>), Some(ContentC)}
Statuses == {"draft", "published"}
OptionalTimes == {None} \cup {Some(t) : t \in Times}

\* datetime.isoformat() and datetime.fromisoformat()
isoformat(t) == <<"iso", t>>
fromisoformat(str) == str[2]

\* a key that the dict does not have
Absent == "<absent>"

\* dict.get(key) is falsy: the key is absent, None or an empty string
Falsy(v) == v = None \/ v = Some(<<>>)

\* Article.__init__ (created_at and title play no part in posting)
Article(c, status, published_at, improved_content) ==
    [content |-> c, status |-> status,
     published_at |-> published_at, improved_content |-> improved_content]

\* Article.from_dict
from_dict(data) ==
    Article(data.content,
            IF data.status = Absent THEN "draft" ELSE data.status,
            IF Falsy(data.published_at) THEN None
            ELSE Some(fromisoformat(data.published_at[1])),
            data.improved_content)

\* the dicts handed to from_dict; an absent or null published_at or
\* improved_content is None
Dicts ==
    [content : ArticleContents,
     status : Statuses \cup {Absent},
     published_at : {None, Some(<<>>)} \cup {Some(isoformat(t)) : t \in Times},
     improved_content : ImprovedContents]

(***************************************************************************)
(* NotePosterService.post_article                                          *)
(***************************************************************************)
P(op, target) == [op |-> op, target |-> target, text |-> <<>>, ok |-> TRUE]

\* lines 119-129
LoginSteps ==
    << P("goto", "https://note.com/login"),
       P("wait_for_selector", "#email"),
       P("wait_for_selector", "#password"),
       P("wait_for_load_state", "networkidle"),
       P("fill", "#email"),
       P("fill", "#password"),
       P("click", "login"),
       P("wait_for_load_state", "networkidle") >>

\* lines 135-136
NewDocumentSteps ==
    << P("goto", "https://note.com/notes/new"),
       P("wait_for_load_state", "networkidle") >>

\* lines 139-140
TitleSteps(t) ==
    << [P("fill", "title") EXCEPT !.text = t],
       P("press", "Enter") >>

\* the section loop with a second Enter after headings as well
BlockSteps_always_two_enters(section) ==
    << [P("copy", "clipboard") EXCEPT !.text = section.content],
       P("press", "Control+V"), P("press", "Enter"), P("press", "Enter") >>

\* lines 149-167: copy, paste, then two Enter for a paragraph, one for a heading
BlockSteps(section) ==
    IF section.type = "paragraph"
    THEN << [P("copy", "clipboard") EXCEPT !.text = section.content],
            P("press", "Control+V"), P("press", "Enter"), P("press", "Enter") >>
    ELSE << [P("copy", "clipboard") EXCEPT !.text = section.content],
            P("press", "Control+V"), P("press", "Enter") >>

\* lines 173-174
SaveSteps ==
    << P("click", "save"),
       P("wait_for_load_state", "networkidle") >>

\* lines 182-187
PublishSteps ==
    << P("click", "publish"),
       P("wait_for_selector", "confirm-publish"),
       P("click", "confirm-publish"),
       P("wait_for_load_state", "networkidle") >>

\* truthiness of an Optional[str]
Truthy(v) == v # None /\ v[1] # <<>>

\* lines 104-106, with "is not None" in place of the truthiness test
SelectContent_is_not_None(a) ==
    IF a.improved_content # None THEN a.improved_content[1] ELSE a.content

\* lines 104-106
SelectContent(a) ==
    IF Truthy(a.improved_content) THEN a.improved_content[1] ELSE a.content

Issued(call, ok) == Append(ui, [call EXCEPT !.ok = ok])

\* the next call of the same primitive, or the next primitive
Advance(n, next) ==
    /\ IF step < n
       THEN pc' = pc /\ step' = step + 1
       ELSE pc' = next /\ step' = 1
    /\ UNCHANGED <<pending, failed>>

\* a handler that tries the failed call again
ExceptReturnFalse_retry ==
    /\ failed' = Append(failed, pc)
    /\ pending' = pending
    /\ pc' = pc
    /\ step' = step

\* lines 199-201: "except Exception" logs and returns False; finally runs next
ExceptReturnFalse ==
    /\ failed' = Append(failed, pc)
    /\ pending' = "false"
    /\ pc' = "finally_context"
    /\ step' = 0

\* lines 194-197: the inner "except Exception" logs a warning, then "return True"
ExceptPublishReturnTrue ==
    /\ failed' = Append(failed, pc)
    /\ pending' = "true"
    /\ pc' = "finally_context"
    /\ step' = 0

\* an exception outside the try block of line 116 leaves through the with block
RaiseOutsideTry ==
    /\ failed' = Append(failed, pc)
    /\ pending' = "raise"
    /\ pc' = "with_exit"
    /\ step' = 0

\* Article(...) is constructed by the caller
ArticleInit ==
    /\ pc = "construct"
    /\ \E c \in ArticleContents, st \in Statuses, pa \in OptionalTimes,
          ic \in ImprovedContents :
          article' = Article(c, st, pa, ic)
    /\ pc' = "idle"
    /\ UNCHANGED <<parseVars, session, ui, clipboard, idx, step, pending, failed,
                   visible, entry, result, calls>>
    /\ UNCHANGED mainVars

\* Article.from_dict(data) is called by the caller
ArticleFromDict ==
    /\ pc = "construct"
    /\ \E data \in Dicts : article' = from_dict(data)
    /\ pc' = "idle"
    /\ UNCHANGED <<parseVars, session, ui, clipboard, idx, step, pending, failed,
                   visible, entry, result, calls>>
    /\ UNCHANGED mainVars

\* lines 101-109: post_article is entered, selects the content and parses it
PostArticleEnter ==
    /\ pc \in {"idle", "done"}
    /\ calls < MaxCalls
    /\ calls' = calls + 1
    /\ entry' = [status |-> article.status, published_at |-> article.published_at]
    /\ LET r == parse_markdown(SelectContent(article))
       IN  /\ markdown_input' = SelectContent(article)
           /\ cleaned'  = r.cleaned
           /\ content'  = r.content
           /\ title'    = r.title
           /\ sections' = r.sections
    /\ session' = NoSession
    /\ ui' = <<>> /\ idx' = 0 /\ step' = 0
    /\ pending' = "" /\ failed' = <<>> /\ visible' = "" /\ result' = ""
    /\ pc' = "sync_playwright"
    /\ UNCHANGED <<article, clipboard>>
    /\ UNCHANGED mainVars

\* line 111: "with sync_playwright() as p" starts the driver
SyncPlaywrightEnter ==
    /\ pc = "sync_playwright"
    /\ \E ok \in BOOLEAN :
          IF ok
          THEN /\ session' = [session EXCEPT !.playwright = TRUE]
               /\ pc' = "launch"
               /\ UNCHANGED <<failed, result>>
          ELSE /\ failed' = Append(failed, pc)
               /\ result' = "raise"
               /\ pc' = "done"
               /\ UNCHANGED session
    /\ UNCHANGED <<article, parseVars, ui, clipboard, idx, step, pending,
                   visible, entry, calls>>
    /\ UNCHANGED mainVars

\* line 112: browser = p.chromium.launch(headless=False)
Launch ==
    /\ pc = "launch"
    /\ \E ok \in BOOLEAN :
          IF ok
          THEN /\ session' = [session EXCEPT !.browser = "open"]
               /\ pc' = "new_context"
               /\ UNCHANGED <<failed, pending, step>>
          ELSE RaiseOutsideTry /\ UNCHANGED session
    /\ UNCHANGED <<article, parseVars, ui, clipboard, idx, visible, entry,
                   result, calls>>
    /\ UNCHANGED mainVars

\* line 113: context = browser.new_context()
NewContext ==
    /\ pc = "new_context"
    /\ \E ok \in BOOLEAN :
          IF ok
          THEN /\ session' = [session EXCEPT !.context = "open"]
               /\ pc' = "new_page"
               /\ UNCHANGED <<failed, pending, step>>
          ELSE RaiseOutsideTry /\ UNCHANGED session
    /\ UNCHANGED <<article, parseVars, ui, clipboard, idx, visible, entry,
                   result, calls>>
    /\ UNCHANGED mainVars

\* line 114: page = context.new_page()
NewPage ==
    /\ pc = "new_page"
    /\ \E ok \in BOOLEAN :
          IF ok
          THEN /\ session' = [session EXCEPT !.page = "open"]
               /\ pc' = "login"
               /\ step' = 1
               /\ UNCHANGED <<failed, pending>>
          ELSE RaiseOutsideTry /\ UNCHANGED session
    /\ UNCHANGED <<article, parseVars, ui, clipboard, idx, visible, entry,
                   result, calls>>
    /\ UNCHANGED mainVars

\* the login sequence with its exceptions swallowed
Login_ignores_failure ==
    /\ pc = "login"
    /\ \E ok \in BOOLEAN :
          /\ ui' = Issued(LoginSteps[step], ok)
          /\ Advance(Len(LoginSteps), "new_document")
    /\ UNCHANGED <<article, parseVars, session, clipboard, idx, visible, entry,
                   result, calls>>
    /\ UNCHANGED mainVars

\* lines 117-131: one call of the login sequence
Login ==
    /\ pc = "login"
    /\ \E ok \in BOOLEAN :
          /\ ui' = Issued(LoginSteps[step], ok)
          /\ IF ok THEN Advance(Len(LoginSteps), "new_document")
                   ELSE ExceptReturnFalse
    /\ UNCHANGED <<article, parseVars, session, clipboard, idx, visible, entry,
                   result, calls>>
    /\ UNCHANGED mainVars

\* lines 133-136: one call of the navigation to the new-document page
NewDocument ==
    /\ pc = "new_document"
    /\ \E ok \in BOOLEAN :
          /\ ui' = Issued(NewDocumentSteps[step], ok)
          /\ IF ok THEN Advance(Len(NewDocumentSteps), "set_title")
                   ELSE ExceptReturnFalse
    /\ UNCHANGED <<article, parseVars, session, clipboard, idx, visible, entry,
                   result, calls>>
    /\ UNCHANGED mainVars

\* lines 138-142: one call of the title input; the section loop starts after it
SetTitle ==
    /\ pc = "set_title"
    /\ \E ok \in BOOLEAN :
          /\ ui' = Issued(TitleSteps(title)[step], ok)
          /\ IF ok
             THEN /\ Advance(2, IF Len(sections) = 0 THEN "save" ELSE "blocks")
                  /\ idx' = IF step < 2 THEN idx ELSE 1
             ELSE ExceptReturnFalse /\ UNCHANGED idx
    /\ UNCHANGED <<article, parseVars, session, clipboard, visible, entry,
                   result, calls>>
    /\ UNCHANGED mainVars

\* the section loop over reversed(sections)
InsertBlock_reversed ==
    /\ pc = "blocks"
    /\ LET steps == BlockSteps(sections[Len(sections) + 1 - idx])
           call  == IF steps[step].op = "copy" THEN steps[step]
                    ELSE IF steps[step].target = "Control+V"
                         THEN [steps[step] EXCEPT !.text = clipboard]
                         ELSE steps[step]
       IN  \E ok \in BOOLEAN :
              /\ ui' = Issued(call, ok)
              /\ clipboard' = IF ok /\ call.op = "copy" THEN call.text ELSE clipboard
              /\ IF ok
                 THEN /\ UNCHANGED <<pending, failed>>
                      /\ IF step < Len(steps)
                         THEN pc' = pc /\ step' = step + 1 /\ idx' = idx
                         ELSE IF idx < Len(sections)
                              THEN pc' = pc /\ step' = 1 /\ idx' = idx + 1
                              ELSE pc' = "save" /\ step' = 1 /\ idx' = idx
                 ELSE ExceptReturnFalse /\ UNCHANGED idx
    /\ UNCHANGED <<article, parseVars, session, visible, entry, result, calls>>
    /\ UNCHANGED mainVars

\* lines 145-169: one call of the handling of sections[idx]
InsertBlock ==
    /\ pc = "blocks"
    /\ LET steps == BlockSteps(sections[idx])
           call  == IF steps[step].op = "copy" THEN steps[step]
                    ELSE IF steps[step].target = "Control+V"
                         THEN [steps[step] EXCEPT !.text = clipboard]
                         ELSE steps[step]
       IN  \E ok \in BOOLEAN :
              /\ ui' = Issued(call, ok)
              /\ clipboard' = IF ok /\ call.op = "copy" THEN call.text ELSE clipboard
              /\ IF ok
                 THEN /\ UNCHANGED <<pending, failed>>
                      /\ IF step < Len(steps)
                         THEN pc' = pc /\ step' = step + 1 /\ idx' = idx
                         ELSE IF idx < Len(sections)
                              THEN pc' = pc /\ step' = 1 /\ idx' = idx + 1
                              ELSE pc' = "save" /\ step' = 1 /\ idx' = idx
                 ELSE ExceptReturnFalse /\ UNCHANGED idx
    /\ UNCHANGED <<article, parseVars, session, visible, entry, result, calls>>
    /\ UNCHANGED mainVars

\* lines 171-176: one call of the draft save
Save ==
    /\ pc = "save"
    /\ \E ok \in BOOLEAN :
          /\ ui' = Issued(SaveSteps[step], ok)
          /\ IF ok THEN Advance(Len(SaveSteps), "publish_check")
                   ELSE ExceptReturnFalse
    /\ UNCHANGED <<article, parseVars, session, clipboard, idx, visible, entry,
                   result, calls>>
    /\ UNCHANGED mainVars

\* line 180: page.is_visible of the publish control; "return True" of line
\* 197 when it is not visible, the inner except when the call raises
PublishCheck ==
    /\ pc = "publish_check"
    /\ \E r \in {"visible", "hidden", "raise"} :
          /\ ui' = Issued(P("is_visible", "publish"), r # "raise")
          /\ visible' = r
          /\ IF r = "visible"
             THEN pc' = "publish" /\ step' = 1 /\ UNCHANGED <<pending, failed>>
             ELSE IF r = "hidden"
                  THEN /\ pending' = "true" /\ pc' = "finally_context"
                       /\ step' = 0 /\ UNCHANGED failed
                  ELSE ExceptPublishReturnTrue
    /\ UNCHANGED <<article, parseVars, session, clipboard, idx, entry, result, calls>>
    /\ UNCHANGED mainVars

\* lines 181-193: one call of the publish sequence; after the last one the
\* article is marked published and "return True" of line 193 is taken
Publish ==
    /\ pc = "publish"
    /\ \E ok \in BOOLEAN :
          /\ ui' = Issued(PublishSteps[step], ok)
          /\ IF ok
             THEN IF step < Len(PublishSteps)
                  THEN /\ pc' = pc /\ step' = step + 1
                       /\ UNCHANGED <<article, pending, failed>>
                  ELSE /\ \E now \in Times :
                             article' = [article EXCEPT !.status = "published",
                                                        !.published_at = Some(now)]
                       /\ pending' = "true" /\ pc' = "finally_context" /\ step' = 0
                       /\ UNCHANGED failed
             ELSE ExceptPublishReturnTrue /\ UNCHANGED article
    /\ UNCHANGED <<parseVars, session, clipboard, idx, visible, entry, result, calls>>
    /\ UNCHANGED mainVars

\* line 203: context.close(); when it raises, the rest of the finally block
\* is skipped and the exception replaces the pending return
FinallyContextClose ==
    /\ pc = "finally_context"
    /\ \E ok \in BOOLEAN :
          IF ok
          THEN /\ session' = [session EXCEPT !.context = "closed", !.page = "closed"]
               /\ pc' = "finally_browser"
               /\ UNCHANGED <<pending, failed>>
          ELSE /\ failed' = Append(failed, pc)
               /\ pending' = "raise"
               /\ pc' = "with_exit"
               /\ UNCHANGED session
    /\ UNCHANGED <<article, parseVars, ui, clipboard, idx, step, visible, entry,
                   result, calls>>
    /\ UNCHANGED mainVars

\* line 204: browser.close()
FinallyBrowserClose ==
    /\ pc = "finally_browser"
    /\ \E ok \in BOOLEAN :
          IF ok
          THEN /\ session' = [session EXCEPT !.browser = "closed"]
               /\ UNCHANGED <<pending, failed>>
          ELSE /\ failed' = Append(failed, pc)
               /\ pending' = "raise"
               /\ UNCHANGED session
    /\ pc' = "with_exit"
    /\ UNCHANGED <<article, parseVars, ui, clipboard, idx, step, visible, entry,
                   result, calls>>
    /\ UNCHANGED mainVars

\* line 111: the with block is left, the driver is stopped and the caller
\* sees the return value or the exception
WithExit ==
    /\ pc = "with_exit"
    /\ session' = [session EXCEPT !.playwright = FALSE]
    /\ result' = pending
    /\ pc' = "done"
    /\ UNCHANGED <<article, parseVars, ui, clipboard, idx, step, pending, failed,
                   visible, entry, calls>>
    /\ UNCHANGED mainVars

Init ==
    /\ pc = "construct"
    /\ article = NoArticle
    /\ markdown_input = <<>> /\ cleaned = <<>> /\ content = <<>>
    /\ title = <<>> /\ sections = <<>>
    /\ session = NoSession /\ ui = <<>> /\ clipboard = <<>>
    /\ idx = 0 /\ step = 0 /\ pending = "" /\ failed = <<>> /\ visible = ""
    /\ entry = NoEntry /\ result = "" /\ calls = 0
    /\ MainNotStarted

Next ==
    \/ ArticleInit
    \/ ArticleFromDict
    \/ PostArticleEnter
    \/ SyncPlaywrightEnter
    \/ Launch
    \/ NewContext
    \/ NewPage
    \/ Login
    \/ NewDocument
    \/ SetTitle
    \/ InsertBlock
    \/ Save
    \/ PublishCheck
    \/ Publish
    \/ FinallyContextClose
    \/ FinallyBrowserClose
    \/ WithExit

Spec == Init /\ [][Next]_vars

(***************************************************************************)
(* main.py: load_config, process_and_post_news, setup_scheduler,           *)
(* run_scheduler                                                           *)
(***************************************************************************)
postVars == <<article, pc, parseVars, session, ui, clipboard, idx, step, pending,
              failed, visible, entry, result, calls>>

Configs == [required_keys -> BOOLEAN]

\* the statuses an agent run can be reported in
RunStatuses == {"queued", "in_progress", "requires_action", "completed", "failed"}

\* what the assistant message of a run can hold; the empty text also stands
\* for a run without an assistant message (the local stays "")
Completions == {<<>>, ContentA, ContentB}

\* load_config with note_password left out of required_keys
load_config_without_note_password(c) ==
    IF \A k \in required_keys \ {"note_password"} : c[k] THEN "ok" ELSE "ValueError"

\* load_config, lines 47-53: "ok" or the ValueError it raises
load_config(c) ==
    IF \A k \in required_keys : c[k] THEN "ok" ELSE "ValueError"

\* an exception that is not caught inside process_and_post_news
RaiseInRun_uncaught ==
    /\ ppc' = "returned"
    /\ run_results' = Append(run_results, "raise")

\* lines 458-462: an exception raised inside the try block is caught, logged
\* and turned into "return False"
RaiseInRun ==
    /\ ppc' = "returned"
    /\ run_results' = Append(run_results, "false")

\* lines 295, 350, 456: "return False"
ReturnFalse ==
    /\ ppc' = "returned"
    /\ run_results' = Append(run_results, "false")

\* the locals of a finished call are gone (the clipboard stays as it is)
PostVarsDropped ==
    /\ article' = NoArticle /\ pc' = "construct"
    /\ markdown_input' = <<>> /\ cleaned' = <<>> /\ content' = <<>>
    /\ title' = <<>> /\ sections' = <<>>
    /\ session' = NoSession /\ ui' = <<>>
    /\ idx' = 0 /\ step' = 0 /\ pending' = "" /\ failed' = <<>> /\ visible' = ""
    /\ entry' = NoEntry /\ result' = "" /\ calls' = 0
    /\ UNCHANGED clipboard

\* lines 487-489: --now runs process_and_post_news once
MainNow ==
    /\ sched = "start" /\ mode = "now"
    /\ sched' = "now"
    /\ ppc' = "load_config"
    /\ UNCHANGED <<postVars, config, mode, fetchVars, run_status, polls, simplified_content,
                   validation_feedback, archives, run_results>>

\* lines 465-471 and 491-492: setup_scheduler loads the configuration
\* outside any handler, registers the daily job and the loop is entered
SetupScheduler ==
    /\ sched = "start" /\ mode = "scheduler"
    /\ sched' = IF load_config(config) = "ok" THEN "loop" ELSE "crashed"
    /\ UNCHANGED <<postVars, config, mode, fetchVars, ppc, run_status, polls, simplified_content,
                   validation_feedback, archives, run_results>>

\* a scheduler that starts the job without waiting for the run under way
SchedulerRunPending_overlapping ==
    /\ sched = "loop"
    /\ Len(run_results) < MaxRuns
    /\ ppc' = "load_config"
    /\ UNCHANGED <<postVars, config, mode, fetchVars, sched, run_status, polls, simplified_content,
                   validation_feedback, archives, run_results>>

\* lines 477-479: schedule.run_pending() finds the daily job due and calls it
SchedulerRunPending ==
    /\ sched = "loop" /\ ppc = "none"
    /\ Len(run_results) < MaxRuns
    /\ ppc' = "load_config"
    /\ UNCHANGED <<postVars, config, mode, fetchVars, sched, run_status, polls, simplified_content,
                   validation_feedback, archives, run_results>>

\* config.json or the environment is changed between two runs
ConfigEdited ==
    /\ sched = "loop" /\ ppc = "none"
    /\ Len(run_results) < MaxRuns
    /\ \E c \in Configs : config' = c
    /\ UNCHANGED <<postVars, mode, fetchVars, sched, ppc, run_status, polls, simplified_content,
                   validation_feedback, archives, run_results>>

\* lines 231-235: the run starts and loads the configuration
LoadConfig ==
    /\ ppc = "load_config"
    /\ IF load_config(config) = "ok"
       THEN ppc' = "setup" /\ UNCHANGED run_results
       ELSE RaiseInRun
    /\ run_status' = "" /\ polls' = 0 /\ simplified_content' = <<>>
    /\ validation_feedback' = FALSE
    /\ UNCHANGED <<postVars, config, mode, fetchVars, sched, archives>>

\* lines 238-246: client, agents and thread are created
Setup ==
    /\ ppc = "setup"
    /\ \E ok \in BOOLEAN :
          IF ok THEN ppc' = "news_create" /\ UNCHANGED run_results
                ELSE RaiseInRun
    /\ UNCHANGED <<postVars, config, mode, fetchVars, sched, run_status, polls,
                   simplified_content, validation_feedback, archives>>

\* a message and a run are created (lines 252-263, 311-338, 364-375, 395-406)
CreateRun(at, next) ==
    /\ ppc = at
    /\ \E ok \in BOOLEAN :
          IF ok
          THEN /\ \E st \in RunStatuses : run_status' = st
               /\ polls' = 0
               /\ ppc' = next
               /\ UNCHANGED run_results
          ELSE RaiseInRun /\ UNCHANGED <<run_status, polls>>
    /\ UNCHANGED <<postVars, config, mode, fetchVars, sched, simplified_content,
                   validation_feedback, archives>>

\* one pass of a wait loop: the run is retrieved again (and, for the news
\* run, tool outputs are submitted when it requires action); the loop is
\* left when the status is not one of waiting.  Nothing in the loops
\* counts the passes: polls records them only up to MaxPolls.
PollRun(at, waiting, next, checked) ==
    /\ ppc = at
    /\ IF run_status \in waiting
       THEN /\ \E ok \in BOOLEAN :
                  IF ok
                  THEN /\ \E st \in RunStatuses : run_status' = st
                       /\ polls' = Min({polls + 1, MaxPolls})
                       /\ UNCHANGED <<ppc, run_results>>
                  ELSE RaiseInRun /\ UNCHANGED <<run_status, polls>>
       ELSE /\ IF checked /\ run_status # "completed"
               THEN ReturnFalse
               ELSE ppc' = next /\ UNCHANGED run_results
            /\ UNCHANGED <<run_status, polls>>
    /\ UNCHANGED <<postVars, config, mode, fetchVars, sched, simplified_content,
                   validation_feedback, archives>>

NewsCreate ==
    /\ ppc = "news_create"
    /\ CreateRun("news_create", "news_poll")

\* lines 265-305
NewsPoll ==
    /\ ppc = "news_poll"
    /\ PollRun("news_poll", {"in_progress", "requires_action"}, "content_create", TRUE)

ContentCreate ==
    /\ ppc = "content_create"
    /\ CreateRun("content_create", "content_poll")

\* lines 340-350
ContentPoll ==
    /\ ppc = "content_poll"
    /\ PollRun("content_poll", {"in_progress", "requires_action"}, "content_read", TRUE)

\* lines 352-360: the assistant message of the content run is read
ContentRead ==
    /\ ppc = "content_read"
    /\ \E ok \in BOOLEAN :
          IF ok
          THEN /\ \E text \in Completions : simplified_content' = text
               /\ ppc' = "validate_create"
               /\ UNCHANGED run_results
          ELSE RaiseInRun /\ UNCHANGED simplified_content
    /\ UNCHANGED <<postVars, config, mode, fetchVars, sched, run_status, polls,
                   validation_feedback, archives>>

ValidateCreate ==
    /\ ppc = "validate_create"
    /\ CreateRun("validate_create", "validate_poll")

\* lines 377-380: no status check follows this loop
ValidatePoll ==
    /\ ppc = "validate_poll"
    /\ PollRun("validate_poll", {"in_progress"}, "validate_read", FALSE)

\* lines 382-393: the feedback is read and searched for the two words
ValidateRead ==
    /\ ppc = "validate_read"
    /\ \E ok \in BOOLEAN :
          IF ok
          THEN /\ \E wants \in BOOLEAN :
                     /\ validation_feedback' = wants
                     /\ ppc' = IF wants THEN "improve_create" ELSE "article"
               /\ UNCHANGED run_results
          ELSE RaiseInRun /\ UNCHANGED validation_feedback
    /\ UNCHANGED <<postVars, config, mode, fetchVars, sched, run_status, polls,
                   simplified_content, archives>>

ImproveCreate ==
    /\ ppc = "improve_create"
    /\ CreateRun("improve_create", "improve_poll")

\* lines 408-411
ImprovePoll ==
    /\ ppc = "improve_poll"
    /\ PollRun("improve_poll", {"in_progress"}, "improve_read", FALSE)

\* lines 413-420: the revised text replaces simplified_content when the
\* improve run left an assistant message
ImproveRead ==
    /\ ppc = "improve_read"
    /\ \E ok \in BOOLEAN :
          IF ok
          THEN /\ \E text \in Completions \cup {simplified_content} :
                     simplified_content' = text
               /\ ppc' = "article"
               /\ UNCHANGED run_results
          ELSE RaiseInRun /\ UNCHANGED simplified_content
    /\ UNCHANGED <<postVars, config, mode, fetchVars, sched, run_status, polls,
                   validation_feedback, archives>>

\* lines 422-433: the service and the Article are constructed
PipelineArticle ==
    /\ ppc = "article"
    /\ article' = Article(simplified_content, "draft", None, None)
    /\ pc' = "idle"
    /\ calls' = 0
    /\ ppc' = "post_article"
    /\ UNCHANGED <<parseVars, session, ui, clipboard, idx, step, pending, failed,
                   visible, entry, result>>
    /\ UNCHANGED <<config, mode, fetchVars, sched, run_status, polls, simplified_content,
                   validation_feedback, archives, run_results>>

\* line 436: post_article(article) is called
PipelinePostArticle ==
    /\ ppc = "post_article"
    /\ calls = 0
    /\ PostArticleEnter

\* lines 436-456: post_article has handed control back
PostArticleReturns ==
    /\ ppc = "post_article"
    /\ pc = "done"
    /\ IF result = "true" THEN ppc' = "archive" /\ UNCHANGED run_results
       ELSE IF result = "false" THEN ReturnFalse
       ELSE RaiseInRun
    /\ UNCHANGED <<postVars, config, mode, fetchVars, sched, run_status, polls,
                   simplified_content, validation_feedback, archives>>

\* the thread of the current run: each run creates its own (line 245)
thread_id == Len(run_results) + 1

\* lines 442-446
thread_archive(day) ==
    [thread_id |-> thread_id, date |-> day, article_content |-> simplified_content]

\* lines 438-453: the archive record is written to the file of the day,
\* replacing what the file held, and True is returned
Archive ==
    /\ ppc = "archive"
    /\ \E ok \in BOOLEAN :
          IF ok
          THEN /\ \E day \in Days :
                     archives' = [archives EXCEPT ![day] = Some(thread_archive(day))]
               /\ ppc' = "returned"
               /\ run_results' = Append(run_results, "true")
          ELSE RaiseInRun /\ UNCHANGED archives
    /\ UNCHANGED <<postVars, config, mode, fetchVars, sched, run_status, polls,
                   simplified_content, validation_feedback>>

\* process_and_post_news hands control back to its caller: the scheduler
\* loop goes on, the --now program ends, an exception ends either
RunReturns ==
    /\ ppc = "returned"
    /\ ppc' = "none"
    /\ sched' = IF run_results[Len(run_results)] = "raise" THEN "crashed"
                ELSE IF mode = "now" THEN "exited" ELSE sched
    /\ PostVarsDropped
    /\ UNCHANGED <<config, mode, fetchVars, run_status, polls, simplified_content,
                   validation_feedback, archives, run_results>>

InitMain ==
    /\ pc = "construct"
    /\ article = NoArticle
    /\ markdown_input = <<>> /\ cleaned = <<>> /\ content = <<>>
    /\ title = <<>> /\ sections = <<>>
    /\ session = NoSession /\ ui = <<>> /\ clipboard = <<>>
    /\ idx = 0 /\ step = 0 /\ pending = "" /\ failed = <<>> /\ visible = ""
    /\ entry = NoEntry /\ result = "" /\ calls = 0
    /\ config \in Configs
    /\ mode \in {"now", "scheduler"}
    /\ sched = "start" /\ ppc = "none"
    /\ run_status = "" /\ polls = 0 /\ simplified_content = <<>>
    /\ validation_feedback = FALSE /\ archives = NoArchives /\ run_results = <<>>
    /\ FetchNotCalled

NextMain ==
    \/ MainNow
    \/ SetupScheduler
    \/ SchedulerRunPending
    \/ ConfigEdited
    \/ LoadConfig
    \/ Setup
    \/ NewsCreate
    \/ NewsPoll
    \/ ContentCreate
    \/ ContentPoll
    \/ ContentRead
    \/ ValidateCreate
    \/ ValidatePoll
    \/ ValidateRead
    \/ ImproveCreate
    \/ ImprovePoll
    \/ ImproveRead
    \/ PipelineArticle
    \/ PipelinePostArticle
    \/ SyncPlaywrightEnter
    \/ Launch
    \/ NewContext
    \/ NewPage
    \/ Login
    \/ NewDocument
    \/ SetTitle
    \/ InsertBlock
    \/ Save
    \/ PublishCheck
    \/ Publish
    \/ FinallyContextClose
    \/ FinallyBrowserClose
    \/ WithExit
    \/ PostArticleReturns
    \/ Archive
    \/ RunReturns

SpecMain == InitMain /\ [][NextMain]_vars

(***************************************************************************)
(* Line view of a text, used to state the parser properties                *)
(***************************************************************************)
RECURSIVE SplitLines(_)
SplitLines(s) ==
    LET nl == {i \in 1..Len(s) : s[i] = "\n"}
    IN  IF nl = {} THEN <<s>>
        ELSE <<SubSeq(s, 1, Min(nl) - 1)>> \o SplitLines(SubSeq(s, Min(nl) + 1, Len(s)))

LeadingHashes(line) ==
    Max({0} \cup {n \in 1..Len(line) : \A i \in 1..n : line[i] = "#"})

\* 1..3 when the line is 1 to 3 hashes, a space and at least one more character
LineHeadingLevel(line) ==
    LET n == LeadingHashes(line)
    IN  IF n \in 1..3 /\ Len(line) >= n + 2 /\ line[n + 1] = " " THEN n ELSE 0

IsLevel1Line(line) == LineHeadingLevel(line) = 1

FlushSpan(span, acc) ==
    LET t == strip(JoinLines(span))
    IN  IF t = <<>> THEN acc ELSE Append(acc, Paragraph(t))

\* the headings and the non-empty spans between them, line by line, left to right
RECURSIVE WalkLines(_, _, _)
WalkLines(lines, span, acc) ==
    IF lines = <<>> THEN FlushSpan(span, acc)
    ELSE LET k == LineHeadingLevel(Head(lines))
         IN  IF k > 0
             THEN WalkLines(Tail(lines), <<>>,
                      Append(FlushSpan(span, acc),
                             [type |-> HeadingType(k),
                              content |-> Hashes(k) \o <<" ">>
                                          \o strip(SubSeq(Head(lines), k + 2, Len(Head(lines))))]))
             ELSE WalkLines(Tail(lines), Append(span, Head(lines)), acc)

BlocksInSourceOrder(body) == WalkLines(SplitLines(body), <<>>, <<>>)

\* character by character: every wrapped region loses its two fences, the
\* text after a region is treated the same way, the interior is not rescanned
RECURSIVE WithoutAnyWrapper(_)
WithoutAnyWrapper(t) ==
    IF t = <<>> THEN <<>>
    ELSE LET rest == SubSeq(t, Len(OpenFence) + 1, Len(t))
             c    == Find(rest, CloseFence, 0)
         IN  IF StartsWithAt(t, OpenFence, 0) /\ c # -1
             THEN SubSeq(rest, 1, c)
                  \o WithoutAnyWrapper(SubSeq(rest, c + Len(CloseFence) + 1, Len(rest)))
             ELSE <<Head(t)>> \o WithoutAnyWrapper(Tail(t))

\* only the first wrapped region loses its fences
WithoutFirstWrapper(t) ==
    LET opens == {q \in 0..Len(t) : /\ StartsWithAt(t, OpenFence, q)
                                     /\ Find(t, CloseFence, q + Len(OpenFence)) # -1}
    IN  IF opens = {} THEN t
        ELSE LET q == Min(opens)
                 c == Find(t, CloseFence, q + Len(OpenFence))
             IN  SubSeq(t, 1, q) \o SubSeq(t, q + Len(OpenFence) + 1, c)
                 \o SubSeq(t, c + Len(CloseFence) + 1, Len(t))

HasWrapper(t) == WithoutFirstWrapper(t) # t

(***************************************************************************)
(* Properties of parse_markdown (checked under SpecParse)                  *)
(***************************************************************************)
Level1Lines(t) == {k \in 1..Len(SplitLines(t)) : IsLevel1Line(SplitLines(t)[k])}

SameLineCount(t, line) ==
    Cardinality({k \in 1..Len(SplitLines(t)) : strip(SplitLines(t)[k]) = strip(line)})

LineReappears(line) ==
    \E i \in 1..Len(sections) :
        \E j \in 1..Len(SplitLines(sections[i].content)) :
            strip(SplitLines(sections[i].content)[j]) = strip(line)

\* C8: when the text has a level-1 heading line, the title is the trimmed
\* trailing text of the first such line, the body is the text with exactly
\* that line emptied (all other lines intact, the body trimmed as a whole),
\* and the title line does not show up in any emitted block.
C8_TitleLineRemoved ==
    (pc = "parse_return" /\ Level1Lines(cleaned) # {}) =>
        LET ls == SplitLines(cleaned)
            k  == Min(Level1Lines(cleaned))
        IN  /\ title = strip(SubSeq(ls[k], 3, Len(ls[k])))
            /\ content = strip(JoinLines([ls EXCEPT ![k] = <<>>]))
            /\ SameLineCount(cleaned, ls[k]) = 1 => ~LineReappears(ls[k])

\* C9 as claimed: the wrapper is stripped for the first wrapped region only,
\* later regions keep their fences, a text without a wrapper is unchanged.
C9_OnlyFirstWrapperStripped ==
    pc = "parse_return" => cleaned = WithoutFirstWrapper(markdown_input)

\* C9 (amended): every wrapped region, left to right, loses its fences (each
\* once, the result is not rescanned); a text without a wrapper is unchanged.
C9_EveryWrapperStripped ==
    pc = "parse_return" =>
        /\ cleaned = WithoutAnyWrapper(markdown_input)
        /\ ~HasWrapper(markdown_input) => cleaned = markdown_input

\* a text with two wrapped regions has been preprocessed: both pairs of fences are gone
C9_Witness ==
    /\ pc = "parse_return"
    /\ HasWrapper(markdown_input)
    /\ HasWrapper(WithoutFirstWrapper(markdown_input))
    /\ Len(cleaned) = Len(markdown_input) - 2 * (Len(OpenFence) + Len(CloseFence))

\* C10: the emitted blocks are exactly the heading lines and the non-empty
\* spans between them of the body, in left-to-right order, each once.
C10_BlocksInSourceOrder ==
    pc = "parse_return" => sections = BlocksInSourceOrder(content)

\* a body with text before a heading and text after it has been segmented
C10_Witness ==
    /\ pc = "parse_return"
    /\ Len(sections) >= 3
    /\ sections[1].type = "paragraph"
    /\ sections[2].type \in {"heading1", "heading2", "heading3"}
    /\ sections[3].type = "paragraph"

HeadingTypes == {"heading1", "heading2", "heading3"}

IsBlank(t) == \A i \in 1..Len(t) : t[i] \in Whitespace

\* the maximal runs of lines of t between heading lines that hold a
\* non-whitespace character, counted line by line
RECURSIVE NonBlankSpans(_, _)
NonBlankSpans(lines, open) ==
    IF lines = <<>> THEN 0
    ELSE IF LineHeadingLevel(Head(lines)) > 0 THEN NonBlankSpans(Tail(lines), FALSE)
    ELSE IF IsBlank(Head(lines)) THEN NonBlankSpans(Tail(lines), open)
    ELSE (IF open THEN 0 ELSE 1) + NonBlankSpans(Tail(lines), TRUE)

ParagraphBlocks == {i \in 1..Len(sections) : sections[i].type = "paragraph"}
HeadingBlocks   == {i \in 1..Len(sections) : sections[i].type \in HeadingTypes}

\* C11: no paragraph block is empty or whitespace-only; there is one
\* paragraph block per span with non-whitespace text, so a whitespace-only
\* span before, between or after headings gives no block, and an empty or
\* whitespace-only body gives no block at all.
C11_NoBlankParagraph ==
    pc = "parse_return" =>
        /\ \A i \in ParagraphBlocks : ~IsBlank(sections[i].content)
        /\ Cardinality(ParagraphBlocks) = NonBlankSpans(SplitLines(content), FALSE)
        /\ IsBlank(content) => sections = <<>>

\* two headings with only a whitespace line between them have been
\* segmented into two adjacent heading blocks
C11_Witness ==
    /\ pc = "parse_return"
    /\ Len(SplitLines(content)) = 3
    /\ SplitLines(content)[2] = <<" ">>
    /\ Len(sections) = 2
    /\ HeadingBlocks = {1, 2}

LinesOf(t) == {SplitLines(t)[j] : j \in 1..Len(SplitLines(t))}

\* C12: every heading block is 1 to 3 hashes, a space and text, of kind
\* heading{number of hashes}; there is one heading block per body line of
\* that shape; a body line of four or more hashes is found inside the text
\* of a paragraph block.
C12_OnlyLevels1To3AreHeadings ==
    pc = "parse_return" =>
        /\ \A i \in HeadingBlocks :
              LET k == LeadingHashes(sections[i].content)
              IN  /\ k \in 1..3
                  /\ sections[i].content[k + 1] = " "
                  /\ sections[i].type = HeadingType(k)
        /\ Cardinality(HeadingBlocks) =
              Cardinality({j \in 1..Len(SplitLines(content)) :
                              LineHeadingLevel(SplitLines(content)[j]) > 0})
        /\ \A line \in LinesOf(content) :
              LeadingHashes(line) >= 4 =>
                  \E i \in ParagraphBlocks :
                      \E pl \in LinesOf(sections[i].content) : strip(pl) = strip(line)

\* a body with a four-hash line and a real heading has been segmented
C12_Witness ==
    /\ pc = "parse_return"
    /\ \E line \in LinesOf(content) : LeadingHashes(line) >= 4
    /\ HeadingBlocks # {}
    /\ ParagraphBlocks # {}

\* C13: a text without a level-1 heading line gets the placeholder title and
\* is the body as it stands: no line removed, nothing trimmed.
C13_NoTitleWholeInputIsBody ==
    (pc = "parse_return" /\ Level1Lines(cleaned) = {}) =>
        /\ title = UntitledTitle
        /\ content = cleaned
        /\ ~HasWrapper(markdown_input) => content = markdown_input

\* a text with a level-2 heading and no level-1 heading line has been parsed
C13_Witness ==
    /\ pc = "parse_return"
    /\ Level1Lines(markdown_input) = {}
    /\ title = UntitledTitle
    /\ HeadingBlocks # {}
    /\ Len(SplitLines(content)) >= 2

(***************************************************************************)
(* Properties of post_article and Article (checked under Spec)             *)
(***************************************************************************)
\* the phase of the first call that raised in this post_article call
FirstFailure == IF failed = <<>> THEN "" ELSE failed[1]

Unmutated ==
    /\ article.status = entry.status
    /\ article.published_at = entry.published_at

PreSavePhases == {"login", "new_document", "set_title", "blocks", "save"}

DriverPhases == {"sync_playwright", "launch", "new_context", "new_page"}
                \cup PreSavePhases \cup {"finally_context", "finally_browser"}

\* the last four calls issued are the four calls of the publish sequence, all successful
PublishCompleted ==
    /\ Len(ui) >= Len(PublishSteps)
    /\ \A i \in 1..Len(PublishSteps) :
          ui[Len(ui) - Len(PublishSteps) + i] = PublishSteps[i]

\* C1: when post_article has handed control back to its caller, neither the
\* browser context nor the browser process it opened is still open.
C1_SessionReleased ==
    pc = "done" => (session.context # "open" /\ session.browser # "open")

\* C2: when a call of login, navigation, setTitle, insertBlock or save was
\* the first to fail, post_article returns false and status and published_at
\* are as on entry.
C2_FailureBeforeSaveReturnsFalse ==
    (pc = "done" /\ FirstFailure \in PreSavePhases) =>
        (result = "false" /\ Unmutated)

\* C3: when the save succeeded and the publish control was not visible,
\* post_article returns true and a draft stays a draft with a null published_at.
C3_HiddenPublishReturnsTrueDraft ==
    (pc = "done" /\ visible = "hidden"
        /\ entry.status = "draft" /\ entry.published_at = None) =>
        (result = "true" /\ article.status = "draft" /\ article.published_at = None)

\* C4: a failure inside the publish sequence after a successful save gives a
\* true return with status and published_at unchanged, and status and
\* published_at change only when the whole publish sequence completed.
C4_PublishFailureDowngraded ==
    /\ (pc = "done" /\ visible = "visible" /\ FirstFailure = "publish") =>
            (result = "true" /\ Unmutated)
    /\ (pc \notin {"construct", "idle"} /\ ~Unmutated) =>
            (PublishCompleted /\ article.status = "published")

\* C5: every failing driver step (driver start, launch, context, page, login,
\* editing, save, teardown) ends in a false return; no exception reaches the caller.
C5_FailureNeverEscapes ==
    pc = "done" =>
        /\ result # "raise"
        /\ FirstFailure \in DriverPhases => result = "false"

\* C6: in every state the caller can observe (after construction, after each
\* post_article call) published_at is non-null iff status is published.
C6_PublishedAtIffPublished ==
    pc \in {"idle", "done"} =>
        (article.published_at # None <=> article.status = "published")

\* the texts pasted into the editor, in order
RECURSIVE PastedTexts(_)
PastedTexts(calls_) ==
    IF calls_ = <<>> THEN <<>>
    ELSE IF Head(calls_).target = "Control+V" /\ Head(calls_).ok
         THEN <<Head(calls_).text>> \o PastedTexts(Tail(calls_))
         ELSE PastedTexts(Tail(calls_))

FilledTitles ==
    {ui[i].text : i \in {j \in 1..Len(ui) : ui[j].target = "title" /\ ui[j].ok}}

\* what was posted is the parse of text t
Posts(t) ==
    /\ markdown_input = t
    /\ title = parse_markdown(t).title
    /\ sections = parse_markdown(t).sections
    /\ pending = "true" =>
          /\ FilledTitles = {parse_markdown(t).title}
          /\ PastedTexts(ui) = [i \in 1..Len(parse_markdown(t).sections) |->
                                    parse_markdown(t).sections[i].content]

\* C7 as claimed: improved_content is parsed and posted whenever it is
\* non-null, content only when improved_content is null.
C7_ImprovedWheneverNonNull ==
    pc \notin {"construct", "idle"} =>
        Posts(IF article.improved_content # None
              THEN article.improved_content[1] ELSE article.content)

\* C7 (amended): improved_content is parsed and posted whenever it is
\* non-null and not the empty string; content is parsed and posted when
\* improved_content is null or the empty string.
C7_ImprovedWheneverNonEmpty ==
    pc \notin {"construct", "idle"} =>
        Posts(IF article.improved_content \notin {None, Some(<<>>)}
              THEN article.improved_content[1] ELSE article.content)

\* an article whose improved_content is the empty string has been posted
C7_Witness ==
    /\ pc = "done" /\ result = "true"
    /\ article.improved_content = Some(<<>>)
    /\ markdown_input = article.content
    /\ PastedTexts(ui) # <<>>

(***************************************************************************)
(* Order of the calls issued by post_article (checked under Spec)          *)
(***************************************************************************)
InCall == pc \notin {"construct", "idle"}

\* the calls of one section, the paste carrying the text of the section
SectionCalls(section) ==
    [i \in 1..Len(BlockSteps(section)) |->
        IF BlockSteps(section)[i].target = "Control+V"
        THEN [BlockSteps(section)[i] EXCEPT !.text = section.content]
        ELSE BlockSteps(section)[i]]

RECURSIVE AllSectionCalls(_)
AllSectionCalls(secs) ==
    IF secs = <<>> THEN <<>>
    ELSE SectionCalls(Head(secs)) \o AllSectionCalls(Tail(secs))

\* login, navigation, title, one insertion per block in parsed order, save
CallsUpToSave ==
    LoginSteps \o NewDocumentSteps \o TitleSteps(title)
    \o AllSectionCalls(sections) \o SaveSteps

\* ... followed by the publish check and the publish sequence
CallsOfFullRun == CallsUpToSave \o <<P("is_visible", "publish")>> \o PublishSteps

Succeeded(call) == [call EXCEPT !.ok = TRUE]

\* C16: whatever is issued after the login calls is issued after all login
\* calls returned without raising (the only sign of a completed login the
\* code has); when a login call raises it is the last call issued, the try
\* block is left for teardown and the call does not return true.
C16_LoginGatesEditing ==
    InCall =>
        /\ \A i \in 1..Len(ui) :
              IF i <= Len(LoginSteps)
              THEN Succeeded(ui[i]) = LoginSteps[i]
              ELSE \A j \in 1..Len(LoginSteps) : ui[j] = LoginSteps[j]
        /\ FirstFailure = "login" =>
              /\ Len(ui) <= Len(LoginSteps)
              /\ ~ui[Len(ui)].ok
              /\ pc \in {"finally_context", "finally_browser", "with_exit", "done"}
              /\ pending # "true" /\ result # "true"

\* a call whose login raised at its third step has returned
C16_Witness ==
    /\ pc = "done"
    /\ FirstFailure = "login"
    /\ Len(ui) = 3
    /\ result = "false"

\* C17: in a call that is about to return true, the calls up to the save
\* are login, navigation, title once, the insertion of every parsed block in
\* parsed order, save; then comes the publish check and only then calls of
\* the publish sequence.
C17_CallsInOrder ==
    (InCall /\ pending = "true") =>
        /\ Len(ui) > Len(CallsUpToSave)
        /\ SubSeq(ui, 1, Len(CallsUpToSave)) = CallsUpToSave
        /\ Len(ui) <= Len(CallsOfFullRun)
        /\ \A i \in (Len(CallsUpToSave) + 1)..Len(ui) :
              Succeeded(ui[i]) = CallsOfFullRun[i]

\* a call with three blocks has returned true
C17_Witness ==
    /\ pc = "done" /\ result = "true"
    /\ Len(sections) = 3
    /\ PastedTexts(ui) = <<sections[1].content, sections[2].content, sections[3].content>>

CopyPositions == {i \in 1..Len(ui) : ui[i].op = "copy"}
PastePositions == {i \in 1..Len(ui) : ui[i].target = "Control+V"}
SaveClick == {i \in 1..Len(ui) : ui[i].op = "click" /\ ui[i].target = "save"}

\* the number of the block that the copy at position i belongs to
BlockOfCopy(i) == Cardinality({j \in CopyPositions : j <= i})

\* where the block started at position i ends: the next copy or the save click
BlockEnd(i) ==
    LET later == {j \in CopyPositions \cup SaveClick : j > i}
    IN  IF later = {} THEN 0 ELSE Min(later)

EntersBetween(i, e) ==
    Cardinality({j \in (i + 1)..(e - 1) :
                    ui[j].op = "press" /\ ui[j].target = "Enter" /\ ui[j].ok})

\* C18: every copy puts the text of its own block on the clipboard, every
\* paste directly follows that copy and pastes that text, and a block that
\* was completed got two Enter if it is a paragraph and one if it is a heading.
C18_OwnTextAndEnters ==
    InCall =>
        /\ \A i \in CopyPositions :
              /\ BlockOfCopy(i) <= Len(sections)
              /\ ui[i].text = sections[BlockOfCopy(i)].content
              /\ BlockEnd(i) # 0 =>
                    /\ (i + 1) \in PastePositions
                    /\ sections[BlockOfCopy(i)].type \in HeadingTypes \cup {"paragraph"}
                    /\ EntersBetween(i, BlockEnd(i)) =
                          IF sections[BlockOfCopy(i)].type = "paragraph" THEN 2 ELSE 1
        /\ \A j \in PastePositions :
              /\ (j - 1) \in CopyPositions
              /\ ui[j - 1].ok
              /\ ui[j].text = ui[j - 1].text
              /\ ui[j].text = sections[BlockOfCopy(j - 1)].content

\* a level-1 heading, a level-3 heading and a paragraph have been inserted and saved
C18_Witness ==
    /\ pc = "done"
    /\ SaveClick # {}
    /\ Len(sections) = 3
    /\ sections[1].type = "heading1"
    /\ sections[2].type = "heading3"
    /\ sections[3].type = "paragraph"

\* C19: the calls issued are a prefix of the calls of a full run, each at
\* its own place (nothing is issued twice), and a call that raised is the
\* last call issued: nothing is retried and nothing follows a failure.
C19_NoRetry ==
    InCall =>
        /\ Len(ui) <= Len(CallsOfFullRun)
        /\ \A i \in 1..Len(ui) :
              /\ Succeeded(ui[i]) = CallsOfFullRun[i]
              /\ ~ui[i].ok => i = Len(ui)
        /\ FirstFailure \in PreSavePhases =>
              /\ ~ui[Len(ui)].ok
              /\ pc \in {"finally_context", "finally_browser", "with_exit", "done"}

\* a call whose paste of a block raised has returned
C19_Witness ==
    /\ pc = "done"
    /\ FirstFailure = "blocks"
    /\ ui[Len(ui)].target = "Control+V"
    /\ ~ui[Len(ui)].ok


(***************************************************************************)
(* Properties of the pipeline run and of the scheduler                     *)
(***************************************************************************)
LastResult == run_results[Len(run_results)]

MissingKey == \E k \in required_keys : ~config[k]

NothingPosted == calls = 0 /\ pc = "construct" /\ session = NoSession /\ ui = <<>>

\* C14: when the simplification run leaves no text (no assistant message or
\* an empty completion), post_article is not invoked and nothing is posted.
\* The code does not test simplified_content, so the run goes on to post
\* an untitled article without blocks.
C14_EmptyCompletionPostsNothing ==
    (ppc \in {"post_article", "archive", "returned"} /\ simplified_content = <<>>)
        => (calls = 0 /\ session = NoSession /\ ui = <<>>)

\* C15: a run that finds a required configuration key missing aborts before
\* any browser session is opened: it stops at load_config, returns False,
\* post_article is never called and no Playwright call is issued.
C15_MissingKeyAbortsBeforeSession ==
    (ppc # "none" /\ MissingKey) =>
        /\ ppc \in {"load_config", "returned"}
        /\ NothingPosted
        /\ ppc = "returned" => (run_results # <<>> /\ LastResult = "false")

C15_Witness ==
    /\ ppc = "returned"
    /\ ~config["note_password"]
    /\ \A k \in required_keys \ {"note_password"} : config[k]
    /\ LastResult = "false"
    /\ NothingPosted

\* run_scheduler, lines 477-479: the loop never ends by itself, so a return
\* of process_and_post_news is followed by the next run_pending
FairSpecMain ==
    SpecMain /\ WF_vars(RunReturns) /\ WF_vars(SchedulerRunPending)

FailedRunEnds ==
    /\ mode = "scheduler"
    /\ ppc = "returned"
    /\ LastResult # "true"
    /\ Len(run_results) < MaxRuns

\* C20: in scheduler mode a run that ends in failure (False returned, or
\* an exception raised anywhere inside process_and_post_news, the driver
\* calls of post_article included) is followed by the next scheduled run,
\* with the scheduler loop still running.
C20_FailedRunIsFollowedByNextRun ==
    FailedRunEnds ~> (sched = "loop" /\ ppc = "load_config")

C20_Witness ==
    /\ mode = "scheduler" /\ sched = "loop"
    /\ Len(run_results) = 1 /\ run_results[1] = "false"
    /\ ppc = "post_article" /\ pc = "done" /\ result = "raise"


(***************************************************************************)
(* Termination of a pipeline run                                           *)
(***************************************************************************)
\* the step PipelinePostArticle, told by the positions before and after it
PostArticleCalled ==
    /\ ppc = "post_article" /\ calls = 0 /\ pc = "idle"
    /\ pc' = "sync_playwright" /\ idx' = 0 /\ step' = 0
    /\ UNCHANGED <<ppc, run_status, polls>>

\* one step of a run of process_and_post_news
RunStep ==
    \/ LoadConfig
    \/ Setup
    \/ NewsCreate
    \/ NewsPoll
    \/ ContentCreate
    \/ ContentPoll
    \/ ContentRead
    \/ ValidateCreate
    \/ ValidatePoll
    \/ ValidateRead
    \/ ImproveCreate
    \/ ImprovePoll
    \/ ImproveRead
    \/ PipelineArticle
    \/ PostArticleCalled
    \/ SyncPlaywrightEnter
    \/ Launch
    \/ NewContext
    \/ NewPage
    \/ Login
    \/ NewDocument
    \/ SetTitle
    \/ InsertBlock
    \/ Save
    \/ PublishCheck
    \/ Publish
    \/ FinallyContextClose
    \/ FinallyBrowserClose
    \/ WithExit
    \/ PostArticleReturns
    \/ Archive

\* where the program stands
position == <<ppc, pc, idx, step, run_status, polls>>

\* the program itself never stops between two steps: every call it makes
\* hands control back, and time.sleep(1) ends
FairRunSpec == SpecMain /\ WF_position(RunStep)

RunStarted == ppc = "load_config"

RunEnded == ppc = "returned"

\* C21: every started run of process_and_post_news ends, returning success
\* or failure, whatever statuses the remote runs report.  The wait loops of
\* lines 266-288, 341-343, 378-380 and 409-411 have no timeout and no pass
\* limit, so a remote run that keeps reporting in_progress or
\* requires_action keeps the run in its loop for ever.
C21_EveryRunEnds == RunStarted ~> RunEnded


(***************************************************************************)
(* The archive record of a run                                             *)
(***************************************************************************)
\* the run that has just handed control back wrote its record
RecordOfThisRun ==
    \E day \in Days :
        /\ archives[day] # None
        /\ archives[day][1].thread_id = Len(run_results)

PostArticleReturnedTrue == pc = "done" /\ result = "true"

\* C22: when a run ends, its archive record has been persisted exactly if
\* post_article returned true, and the run then returns true.  The write of
\* lines 449-451 is not guarded on its own: when it raises, the except of
\* line 458 returns False for a run whose article is posted, and no record
\* exists.
C22_ArchivedIffPosted ==
    RunEnded =>
        /\ RecordOfThisRun <=> PostArticleReturnedTrue
        /\ PostArticleReturnedTrue => LastResult = "true"


(***************************************************************************)
(* Ownership of the browser session                                        *)
(***************************************************************************)
\* a session that can be driven: the driver of the with block is running.
\* (A browser that was not closed by browser.close() has lost its driver
\* when the with block is left.)
SessionLive == session.playwright

YES == <<"Y", "E", "S">>

\* str.startswith
startswith(s, prefix) == StartsWithAt(s, prefix, 0)

\* list[:n] for n >= 0
Take(list, n) == SubSeq(list, 1, Min({n, Len(list)}))

\* an article as the news service sends it; source may be missing
ApiArticles == {[title |-> "t1", source |-> Some("s1")],
                [title |-> "t2", source |-> None]}

\* what one chat.completions.create call gives: it raises (ok is FALSE), or
\* it answers with a message whose content is None or a text
Answers == {[ok |-> FALSE, content |-> None],
            [ok |-> TRUE,  content |-> None],
            [ok |-> TRUE,  content |-> Some(YES \o <<".">>)],
            [ok |-> TRUE,  content |-> Some(<<"N", "O">>)],
            [ok |-> TRUE,  content |-> Some(<<"y", "e", "s">>)]}

SeqsUpTo(S, n) == UNION {[1..k -> S] : k \in 0..n}

\* the arguments of a call, the response of the news service (None when
\* the request, raise_for_status or json() raises) and, per article of the
\* response, what the filtering call for it gives when it is made
FetchCalls ==
    {[num_articles |-> n, age_appropriate |-> age, response |-> resp, answers |-> ans] :
        n \in 0..MaxArticles, age \in BOOLEAN,
        resp \in {None} \cup {Some(arts) : arts \in SeqsUpTo(ApiArticles, MaxArticles)},
        ans \in SeqsUpTo(Answers, MaxArticles)}

WellFormed(call) ==
    Len(call.answers) = IF call.response = None THEN 0 ELSE Len(call.response[1])

\* line 106
pageSize(num_articles) == Min({num_articles * 2, MaxPageSize})

\* lines 115-122: the fields kept of an article, with their defaults
RawArticle(a) ==
    [title |-> a.title, source |-> IF a.source = None THEN "" ELSE a.source[1]]

raw_articles(data) == [i \in 1..Len(data) |-> RawArticle(data[i])]

\* an answer that is taken for a yes although it does not start with YES
IsAppropriate_any_answer(text) == TRUE

\* line 155
IsAppropriate(text) == startswith(text, YES)

\* lines 128-158: the filtering loop from article i on; it stops at the
\* first call that raises, and right after the append that fills the list
RECURSIVE FilterLoop(_, _, _, _, _)
FilterLoop(raw, answers, num_articles, i, filtered) ==
    IF i > Len(raw)
    THEN [raised |-> FALSE, filtered |-> filtered, asked |-> i - 1]
    ELSE IF ~answers[i].ok \/ answers[i].content = None
    THEN [raised |-> TRUE, filtered |-> filtered, asked |-> i]
    ELSE IF IsAppropriate(answers[i].content[1])
    THEN IF Len(filtered) + 1 >= num_articles
         THEN [raised |-> FALSE, filtered |-> Append(filtered, raw[i]), asked |-> i]
         ELSE FilterLoop(raw, answers, num_articles, i + 1, Append(filtered, raw[i]))
    ELSE FilterLoop(raw, answers, num_articles, i + 1, filtered)

Returns(list, asked, n) ==
    [raised |-> FALSE, value |-> list, asked |-> asked, requested |-> Some(pageSize(n))]

\* lines 92-166.  load_config and the client are set up before the try, so
\* a ValueError of load_config reaches the caller; every exception after
\* that is caught and [] is returned
fetch_trending_news(c, call) ==
    IF load_config(c) # "ok"
    THEN [raised |-> TRUE, value |-> <<>>, asked |-> 0, requested |-> None]
    ELSE IF call.response = None
    THEN Returns(<<>>, 0, call.num_articles)
    ELSE LET raw == raw_articles(call.response[1])
         IN  IF call.age_appropriate /\ raw # <<>>
             THEN LET f == FilterLoop(raw, call.answers, call.num_articles, 1, <<>>)
                  IN  IF f.raised
                      THEN Returns(<<>>, f.asked, call.num_articles)
                      ELSE Returns(Take(f.filtered, call.num_articles), f.asked,
                                   call.num_articles)
             ELSE Returns(Take(raw, call.num_articles), 0, call.num_articles)

\* a caller is about to call fetch_trending_news
InitFetch ==
    /\ fetch_call \in {call \in FetchCalls : WellFormed(call)}
    /\ fetch_result = None
    /\ config \in {FullConfig, [FullConfig EXCEPT !["news_api_key"] = FALSE]}
    /\ pc = "fetch_call"
    /\ markdown_input = <<>> /\ cleaned = <<>> /\ content = <<>>
    /\ title = <<>> /\ sections = <<>>
    /\ article = NoArticle /\ session = NoSession /\ ui = <<>> /\ clipboard = <<>>
    /\ idx = 0 /\ step = 0 /\ pending = "" /\ failed = <<>> /\ visible = ""
    /\ entry = NoEntry /\ result = "" /\ calls = 0
    /\ mode = "now" /\ sched = "start" /\ ppc = "none"
    /\ run_status = "" /\ polls = 0 /\ simplified_content = <<>>
    /\ validation_feedback = FALSE /\ archives = NoArchives /\ run_results = <<>>

\* fetch_trending_news(num_articles, category, age_appropriate) runs to its
\* return or to the exception it lets through
FetchTrendingNews ==
    /\ pc = "fetch_call"
    /\ fetch_result' = Some(fetch_trending_news(config, fetch_call))
    /\ pc' = "fetch_return"
    /\ UNCHANGED <<article, parseVars, session, ui, clipboard, idx, step, pending,
                   failed, visible, entry, result, calls>>
    /\ UNCHANGED <<config, mode, sched, ppc, run_status, polls, simplified_content,
                   validation_feedback, archives, run_results, fetch_call>>

NextFetch == FetchTrendingNews

SpecFetch == InitFetch /\ [][NextFetch]_vars

(***************************************************************************)
(* Properties of fetch_trending_news                                       *)
(***************************************************************************)
FetchReturned == fetch_result # None

Fetched == fetch_result[1]

SourceArticles == raw_articles(fetch_call.response[1])

\* the places of the source whose filtering answer starts with YES
YesPlaces ==
    {i \in 1..Len(fetch_call.answers) :
        /\ fetch_call.answers[i].ok
        /\ fetch_call.answers[i].content # None
        /\ startswith(fetch_call.answers[i].content[1], YES)}

\* the articles at the places S of the source, in source order
RECURSIVE ArticlesAt(_, _)
ArticlesAt(S, i) ==
    IF i > Len(SourceArticles) THEN <<>>
    ELSE (IF i \in S THEN <<SourceArticles[i]>> ELSE <<>>) \o ArticlesAt(S, i + 1)

NewsRequestFailed == fetch_call.response = None

FilteringCallFailed ==
    \E i \in 1..Fetched.asked : ~fetch_call.answers[i].ok

\* C24: with age_appropriate enabled, what fetch_trending_news returns are
\* articles at places whose filtering answer started with YES, in source
\* order, at most num_articles of them; when the news request or a filtering
\* call that was made failed, it returns the empty list and does not raise.
C24_OnlyYesArticlesOrEmpty ==
    (FetchReturned /\ fetch_call.age_appropriate /\ load_config(config) = "ok") =>
        /\ ~Fetched.raised
        /\ Len(Fetched.value) <= fetch_call.num_articles
        /\ ~NewsRequestFailed =>
              \E S \in SUBSET YesPlaces : Fetched.value = ArticlesAt(S, 1)
        /\ (NewsRequestFailed \/ FilteringCallFailed) => Fetched.value = <<>>

\* of three articles the first and the third got a YES, and both are returned
C24_Witness ==
    /\ FetchReturned
    /\ fetch_call.age_appropriate /\ fetch_call.num_articles = 2
    /\ ~NewsRequestFailed
    /\ YesPlaces = {1, 3}
    /\ Len(Fetched.value) = 2
    /\ Fetched.value[1] # Fetched.value[2]

====
